---------------------------- MODULE Spec2Model ----------------------------
(***************************************************************************)
(* A model of unifimacgui: the UniFi controller client (client.py), the    *)
(* labelling and filtering helpers (client.py, gui.py), the command-line   *)
(* driver (cli.py) and the Tk front end (gui.py).                          *)
(*                                                                         *)
(* Python strings are sequences of one-character strings, so that upper(), *)
(* lower(), strip(), the `in` substring test and string ordering are       *)
(* computed character by character as the interpreter computes them.       *)
(* JSON values read with dict.get are tagged records [t, v]: a string, a   *)
(* null / missing key, or a number.                                        *)
(***************************************************************************)
EXTENDS Integers, Sequences, FiniteSets, Bags, TLC

(***************************************************************************)
(* Bounds of the model.                                                    *)
(***************************************************************************)
\* longest MAC filter list / entry list that is enumerated
MaxMacs == 3
\* longest known-client roster (stat/alluser response) that is enumerated
MaxRoster == 2
\* longest filter list that is labelled against a fetched roster
MaxFlowMacs == 1
\* most profiles in a wlanconf response that is enumerated
MaxWlans == 2
\* most presses of Connect and site selections by the user, together
MaxPresses == 2

(***************************************************************************)
(* Characters and strings.                                                 *)
(***************************************************************************)
\* The printable ASCII characters in code-point order, from 32 (space); the
\* grave accent (96) cannot be written in a string and holds a placeholder.
Printable ==
    << " ", "!", "\"", "#", "$", "%", "&", "'", "(", ")", "*", "+", ",", "-",
       ".", "/", "0", "1", "2", "3", "4", "5", "6", "7", "8", "9", ":", ";",
       "<", "=", ">", "?", "@", "A", "B", "C", "D", "E", "F", "G", "H", "I",
       "J", "K", "L", "M", "N", "O", "P", "Q", "R", "S", "T", "U", "V", "W",
       "X", "Y", "Z", "[", "\\", "]", "^", "_", "<grave>", "a", "b", "c", "d", "e",
       "f", "g", "h", "i", "j", "k", "l", "m", "n", "o", "p", "q", "r", "s",
       "t", "u", "v", "w", "x", "y", "z", "{", "|", "}", "~" >>

\* ord(c): the code point of a character (tab is 9).
Ord(c) ==
    IF c = "\t" THEN 9
    ELSE 31 + (CHOOSE i \in 1..Len(Printable) : Printable[i] = c)

\* chr(n) for a printable code point.
Chr(n) == Printable[n - 31]

\* str.upper() on one ASCII character.
UpperChar(c) == IF Ord(c) \in 97..122 THEN Chr(Ord(c) - 32) ELSE c

\* str.lower() on one ASCII character.
LowerChar(c) == IF Ord(c) \in 65..90 THEN Chr(Ord(c) + 32) ELSE c

\* str.upper()
Upper(s) == [i \in 1..Len(s) |-> UpperChar(s[i])]

\* str.lower()
Lower(s) == [i \in 1..Len(s) |-> LowerChar(s[i])]

\* str.isspace() on one character, for the characters of the model.
IsSpace(c) == c \in {" ", "\t"}

\* str.lstrip()
RECURSIVE LStrip(_)
LStrip(s) ==
    IF s = <<>> THEN <<>>
    ELSE IF IsSpace(Head(s)) THEN LStrip(Tail(s)) ELSE s

\* str.rstrip()
RECURSIVE RStrip(_)
RStrip(s) ==
    IF s = <<>> THEN <<>>
    ELSE IF IsSpace(s[Len(s)]) THEN RStrip(SubSeq(s, 1, Len(s) - 1)) ELSE s

\* str.strip()
Strip(s) == RStrip(LStrip(s))

\* `needle in hay` for strings: needle occurs as a contiguous slice of hay.
Contains(hay, needle) ==
    \E i \in 0..(Len(hay) - Len(needle)) :
        SubSeq(hay, i + 1, i + Len(needle)) = needle

\* a < b for strings: Python compares code points lexicographically.
RECURSIVE StrLess(_, _)
StrLess(a, b) ==
    IF b = <<>> THEN FALSE
    ELSE IF a = <<>> THEN TRUE
    ELSE IF Ord(Head(a)) < Ord(Head(b)) THEN TRUE
    ELSE IF Ord(Head(a)) > Ord(Head(b)) THEN FALSE
    ELSE StrLess(Tail(a), Tail(b))

\* All sequences over S of length at most n.
BSeq(S, n) == UNION {[1..k -> S] : k \in 0..n}

\* All dicts (finite mappings) with keys among Keys and values in Vals.
Dicts(Keys, Vals) == UNION {[D -> Vals] : D \in SUBSET Keys}

(***************************************************************************)
(* JSON values as dict.get returns them.                                   *)
(***************************************************************************)
\* None: the key is missing or holds null.
JNull == [t |-> "null", v |-> <<>>]
\* a value that is not a string (a number)
JNum == [t |-> "num", v |-> <<>>]
\* a string value
JStr(s) == [t |-> "str", v |-> s]

\* isinstance(value, str)
IsStr(x) == x.t = "str"

(***************************************************************************)
(* client.py: _pick_name, fetch_known_devices, label_mac_addresses.        *)
(***************************************************************************)
\* The literal default label.
Unknown == <<"U", "n", "k", "n", "o", "w", "n">>

\* The candidate fields of a device record, in the order they are tried.
NameKeys == <<"name", "hostname", "usergroup_name", "oui">>

\* A field qualifies: isinstance(value, str) and value.strip().
Qualifies(value) == IsStr(value) /\ Strip(value.v) # <<>>

\* A plausible slip in _pick_name: the isinstance / strip test is dropped
\* and the first string field is returned as it stands.
PickNameUnstripped(device) ==
    IF \E k \in 1..Len(NameKeys) : IsStr(device[NameKeys[k]])
    THEN LET k == CHOOSE j \in 1..Len(NameKeys) :
                      /\ IsStr(device[NameKeys[j]])
                      /\ \A h \in 1..(j - 1) : ~IsStr(device[NameKeys[h]])
         IN  device[NameKeys[k]]
    ELSE JNull

\* A plausible slip in _pick_name: the fields are tried in reverse order.
PickNameReversed(device) ==
    IF \E k \in 1..Len(NameKeys) : Qualifies(device[NameKeys[k]])
    THEN LET k == CHOOSE j \in 1..Len(NameKeys) :
                      /\ Qualifies(device[NameKeys[j]])
                      /\ \A h \in (j + 1)..Len(NameKeys) :
                             ~Qualifies(device[NameKeys[h]])
         IN  JStr(Strip(device[NameKeys[k]].v))
    ELSE JNull

\* _pick_name(device): the stripped value of the first field, in NameKeys
\* order, that is a string and non-empty after stripping; None otherwise.
RECURSIVE PickFrom(_, _)
PickFrom(device, k) ==
    IF k > Len(NameKeys) THEN JNull
    ELSE LET value == device[NameKeys[k]]
         IN  IF IsStr(value) /\ Strip(value.v) # <<>>
             THEN JStr(Strip(value.v))
             ELSE PickFrom(device, k + 1)

pick_name(device) == PickFrom(device, 1)

\* dict item assignment mapping[key] = value
DictSet(d, key, value) ==
    [x \in (DOMAIN d) \cup {key} |-> IF x = key THEN value ELSE d[x]]

\* the empty dict
EmptyDict == [x \in {} |-> <<>>]

\* The loop of fetch_known_devices over the records of the response, from
\* record i on, with the mapping built so far.
RECURSIVE KnownFrom(_, _, _)
KnownFrom(devs, i, mapping) ==
    IF i > Len(devs) THEN mapping
    ELSE LET device == devs[i]
             \* (device.get("mac") or "").upper()
             mac == Upper(IF IsStr(device.mac) THEN device.mac.v ELSE <<>>)
             name == pick_name(device)
         IN  IF mac = <<>> THEN KnownFrom(devs, i + 1, mapping)
             ELSE IF IsStr(name) /\ name.v # <<>>
                  THEN KnownFrom(devs, i + 1, DictSet(mapping, mac, name.v))
                  ELSE KnownFrom(devs, i + 1, mapping)

\* fetch_known_devices on the data of a successful response.
known_devices_of(devs) == KnownFrom(devs, 1, EmptyDict)

\* A plausible slip in label_mac_addresses: the lookup uses the address as
\* written instead of its uppercase form.
LabelNoNormalise(ms, known) ==
    [i \in 1..Len(ms) |->
        <<Upper(ms[i]), IF ms[i] \in DOMAIN known THEN known[ms[i]] ELSE Unknown>>]

\* A plausible slip in label_mac_addresses: addresses already labelled are
\* skipped (the list is deduplicated).
RECURSIVE LabelDedupFrom(_, _, _)
LabelDedupFrom(ms, known, i) ==
    IF i > Len(ms) THEN <<>>
    ELSE LET n == Upper(ms[i])
             rest == LabelDedupFrom(ms, known, i + 1)
         IN  IF \E j \in 1..(i - 1) : Upper(ms[j]) = n THEN rest
             ELSE << <<n, IF n \in DOMAIN known THEN known[n] ELSE Unknown>> >>
                  \o rest

LabelDedup(ms, known) == LabelDedupFrom(ms, known, 1)

\* label_mac_addresses(macs, known_devices): the loop appends one
\* (normalised, label) pair per address, in order.
RECURSIVE LabelFrom(_, _, _)
LabelFrom(ms, known, i) ==
    IF i > Len(ms) THEN <<>>
    ELSE LET normalised == Upper(ms[i])
             label == IF normalised \in DOMAIN known
                      THEN known[normalised] ELSE Unknown
         IN  << <<normalised, label>> >> \o LabelFrom(ms, known, i + 1)

label_mac_addresses(ms, known) == LabelFrom(ms, known, 1)

(***************************************************************************)
(* client.py: fetch_sites, fetch_wlans, fetch_mac_filter_details.          *)
(***************************************************************************)
\* How a request ends: answered 2xx, answered with an error status, or no
\* answer at all (connection error, timeout).
HttpOutcomes == {"ok", "status_error", "unreachable"}

\* A plausible slip in login: raise_for_status() is left out, so that a
\* rejected login returns normally.
LoginIgnoresStatus(outcome) == outcome = "unreachable"

\* login(username, password) raises: session.post raises when there is no
\* answer, raise_for_status() when the answer is not 2xx.
login_raises(outcome) == outcome # "ok"

\* list.sort(key=...): the stable order of the indices 1..n by their keys.
\* Index i is inserted behind every index whose key is not greater.
RECURSIVE InsertIdx(_, _, _)
InsertIdx(p, i, keys) ==
    IF p = <<>> THEN <<i>>
    ELSE IF StrLess(keys[i], keys[Head(p)]) THEN <<i>> \o p
    ELSE <<Head(p)>> \o InsertIdx(Tail(p), i, keys)

RECURSIVE SortIdx(_, _)
SortIdx(keys, n) ==
    IF n = 0 THEN <<>> ELSE InsertIdx(SortIdx(keys, n - 1), n, keys)

\* s sorted stably by the parallel sequence of keys.
StableSort(s, keys) ==
    LET p == SortIdx(keys, Len(s)) IN [k \in 1..Len(s) |-> s[p[k]]]

\* sorted(d) for a dict with string keys: its keys in code-point order.
RECURSIVE SortedKeys(_)
SortedKeys(S) ==
    IF S = {} THEN <<>>
    ELSE LET m == CHOOSE x \in S : \A y \in S \ {x} : StrLess(x, y)
         IN  <<m>> \o SortedKeys(S \ {m})

\* sep.join(parts)
RECURSIVE Join(_, _)
Join(parts, sep) ==
    IF parts = <<>> THEN <<>>
    ELSE IF Len(parts) = 1 THEN parts[1]
    ELSE parts[1] \o sep \o Join(Tail(parts), sep)

\* item.get(key, "") for a key that holds a string or is missing.
GetStr(x) == IF IsStr(x) THEN x.v ELSE <<>>

\* A JSON list value.
JList(l) == [t |-> "list", v |-> l]

\* fetch_sites on the data of a successful response: Site(code=name,
\* description=desc or name), sorted by lowercased description.
fetch_sites_of(data) ==
    LET sites == [i \in 1..Len(data) |->
                    [code |-> GetStr(data[i].name),
                     description |-> IF GetStr(data[i].desc) # <<>>
                                     THEN GetStr(data[i].desc)
                                     ELSE GetStr(data[i].name)]]
    IN  StableSort(sites, [i \in 1..Len(sites) |-> Lower(sites[i].description)])

\* fetch_wlans on the data of a successful response: WlanProfile(name,
\* mac_filter_list or []), sorted by lowercased name.
fetch_wlans_of(data) ==
    LET wlans == [i \in 1..Len(data) |->
                    [name |-> GetStr(data[i].name),
                     mac_filter_list |-> data[i].mac_filter_list.v]]
    IN  StableSort(wlans, [i \in 1..Len(wlans) |-> Lower(wlans[i].name)])

\* "WLAN '" and "' not found. Available: " and ", "
MsgHead == <<"W", "L", "A", "N", " ", "'">>
MsgMid ==
    <<"'", " ", "n", "o", "t", " ", "f", "o", "u", "n", "d", ".", " ",
      "A", "v", "a", "i", "l", "a", "b", "l", "e", ":", " ">>
CommaSpace == <<",", " ">>

\* The message of the ValueError of fetch_mac_filter_details.
NotFoundMessage(wlan_name, available) ==
    MsgHead \o wlan_name \o MsgMid \o Join(available, CommaSpace)

\* No profile and no mapping: the call raised.
NoWlan == [name |-> <<>>, mac_filter_list |-> <<>>]

\* A plausible slip in fetch_mac_filter_details: the lookup ignores letter
\* case.
DetailsCaseInsensitive(wlans_resp, known_resp, wlan_name) ==
    IF ~wlans_resp.ok
    THEN [status |-> "HTTPError", message |-> <<>>, wlan |-> NoWlan,
          known |-> EmptyDict, issued |-> <<"wlanconf">>]
    ELSE LET wlans == fetch_wlans_of(wlans_resp.data)
             names == {wlans[i].name : i \in 1..Len(wlans)}
         IN  IF \A n \in names : Lower(n) # Lower(wlan_name)
             THEN [status |-> "ValueError",
                   message |-> NotFoundMessage(wlan_name, SortedKeys(names)),
                   wlan |-> NoWlan, known |-> EmptyDict,
                   issued |-> <<"wlanconf">>]
             ELSE IF ~known_resp.ok
             THEN [status |-> "HTTPError", message |-> <<>>, wlan |-> NoWlan,
                   known |-> EmptyDict, issued |-> <<"wlanconf", "alluser">>]
             ELSE LET last == CHOOSE i \in 1..Len(wlans) :
                                 /\ Lower(wlans[i].name) = Lower(wlan_name)
                                 /\ \A j \in (i + 1)..Len(wlans) :
                                        Lower(wlans[j].name) # Lower(wlan_name)
                  IN  [status |-> "ok", message |-> <<>>, wlan |-> wlans[last],
                       known |-> known_devices_of(known_resp.data),
                       issued |-> <<"wlanconf", "alluser">>]

\* fetch_mac_filter_details(site_code, wlan_name) on the responses the two
\* GET requests receive (ok: raise_for_status passes; data: the "data"
\* list).  The result tells how the call ended (returned, ValueError, or
\* the HTTP error of a request), what it returned and which requests went
\* out.  lookup = {wlan.name: wlan}: of two profiles with one name the
\* later one stays.
fetch_mac_filter_details(wlans_resp, known_resp, wlan_name) ==
    IF ~wlans_resp.ok
    THEN [status |-> "HTTPError", message |-> <<>>, wlan |-> NoWlan,
          known |-> EmptyDict, issued |-> <<"wlanconf">>]
    ELSE LET wlans == fetch_wlans_of(wlans_resp.data)
             names == {wlans[i].name : i \in 1..Len(wlans)}
         IN  IF wlan_name \notin names
             THEN [status |-> "ValueError",
                   message |-> NotFoundMessage(wlan_name, SortedKeys(names)),
                   wlan |-> NoWlan, known |-> EmptyDict,
                   issued |-> <<"wlanconf">>]
             ELSE IF ~known_resp.ok
             THEN [status |-> "HTTPError", message |-> <<>>, wlan |-> NoWlan,
                   known |-> EmptyDict, issued |-> <<"wlanconf", "alluser">>]
             ELSE LET last == CHOOSE i \in 1..Len(wlans) :
                                 /\ wlans[i].name = wlan_name
                                 /\ \A j \in (i + 1)..Len(wlans) :
                                        wlans[j].name # wlan_name
                  IN  [status |-> "ok", message |-> <<>>, wlan |-> wlans[last],
                       known |-> known_devices_of(known_resp.data),
                       issued |-> <<"wlanconf", "alluser">>]

(***************************************************************************)
(* gui.py: filter_entries.                                                 *)
(***************************************************************************)
\* A plausible slip in filter_entries: an empty term matches nothing.
FilterEmptyTermNone(es, t) ==
    IF t = <<>> THEN <<>>
    ELSE SelectSeq(es, LAMBDA e : \/ Contains(Lower(e[1]), Lower(t))
                                  \/ Contains(Lower(e[2]), Lower(t)))

\* A plausible slip in filter_entries: only the MAC column is searched.
FilterMacOnly(es, t) ==
    IF t = <<>> THEN es
    ELSE SelectSeq(es, LAMBDA e : Contains(Lower(e[1]), Lower(t)))

\* The loop of filter_entries from entry i on.
RECURSIVE FilterFrom(_, _, _)
FilterFrom(es, needle, i) ==
    IF i > Len(es) THEN <<>>
    ELSE LET mac == es[i][1]
             name == es[i][2]
             rest == FilterFrom(es, needle, i + 1)
         IN  IF Contains(Lower(mac), needle) \/ Contains(Lower(name), needle)
             THEN << <<mac, name>> >> \o rest
             ELSE rest

\* filter_entries(entries, term)
filter_entries(es, t) ==
    IF t = <<>> THEN es
    ELSE FilterFrom(es, Lower(t), 1)

(***************************************************************************)
(* State.                                                                  *)
(***************************************************************************)
VARIABLES
    stage,          \* position of the helper pipeline under check
    macs,           \* the MAC filter list handed to label_mac_addresses
    known_devices,  \* the MAC -> name mapping handed to label_mac_addresses
    labelled,       \* the result of label_mac_addresses
    devices,        \* the "data" of a stat/alluser response
    entries,        \* the entry list handed to filter_entries
    term,           \* the search term handed to filter_entries
    filtered,       \* the result of filter_entries
    wlan_resp,      \* the response to GET rest/wlanconf: [ok, data]
    known_resp,     \* the response to GET stat/alluser: [ok, data]
    wlan_name,      \* the WLAN name asked for
    details,        \* how fetch_mac_filter_details ended
    mode,           \* app.run: "cli" (run_cli) or "gui" (run_gui)
    session,        \* per UniFiClient instance: its session is logged in
    fetches,        \* the resource GETs sent so far
    cli_pc,         \* position of run_cli
    cli_site,       \* args.site
    cli_out,        \* args.out / args.format: "none", "txt", "csv", "xlsx"
    cli_exit,       \* how run_cli ended
    cli_failed,     \* the step of run_cli that failed, if any
    cli_stdout,     \* what run_cli printed last
    gui,            \* the UnifiGui object: GuiState, widgets, table, status
    workers,        \* the worker threads that are running (a bag)
    queue,          \* the after(0, ...) callbacks the event loop has to run
    presses,        \* how often the user pressed Connect / picked a site
    touched         \* the accesses worker threads made to the GUI's state

helperVars ==
    <<stage, macs, known_devices, labelled, devices, entries, term, filtered>>

detailsVars == <<wlan_resp, known_resp, wlan_name, details>>

cliVars == <<cli_pc, cli_site, cli_out, cli_exit, cli_failed, cli_stdout>>

clientVars == <<session, fetches>>

guiVars == <<gui, workers, queue, presses, touched>>

appVars == <<mode, clientVars, cliVars, guiVars>>

vars == <<helperVars, detailsVars, appVars>>

\* Nothing printed.
NoOutput == [kind |-> "none", text |-> <<>>, rows |-> <<>>]

\* A Site / WlanProfile that is not there.
NoSite == [code |-> <<>>, description |-> <<>>]

\* A ttk.Combobox: its values, the text shown and the index last set
\* (0: none, Tk's -1).
EmptyCombo == [values |-> <<>>, text |-> <<>>, index |-> 0]

\* A status line.
Status(kind, arg) == [kind |-> kind, arg |-> arg]

\* UnifiGui.__init__: GuiState() and the empty widgets.
NewGui ==
    [client |-> 0, sites |-> <<>>, wlans |-> EmptyDict, known |-> EmptyDict,
     site_combo |-> EmptyCombo, wlan_combo |-> EmptyCombo,
     all_entries |-> <<>>, search |-> <<>>, tree |-> <<>>,
     status |-> Status("enter_credentials", <<>>)]

\* The Tk front end is not running.
GuiUnused ==
    /\ gui = NewGui
    /\ workers = EmptyBag
    /\ queue = <<>>
    /\ presses = 0
    /\ touched = {}

\* The application is not running: a helper is exercised on its own.
AppUnused ==
    /\ GuiUnused
    /\ mode = "none"
    /\ session = <<>>
    /\ fetches = {}
    /\ cli_pc = "idle"
    /\ cli_site = <<>>
    /\ cli_out = "none"
    /\ cli_exit = "none"
    /\ cli_failed = "none"
    /\ cli_stdout = NoOutput

\* A response that was not received.
NoResp == [ok |-> FALSE, data |-> <<>>]

\* fetch_mac_filter_details has not been called.
NoDetails ==
    [status |-> "none", message |-> <<>>, wlan |-> NoWlan,
     known |-> EmptyDict, issued |-> <<>>]

\* The variables of fetch_mac_filter_details are not in use.
DetailsUnused ==
    /\ wlan_resp = NoResp
    /\ known_resp = NoResp
    /\ wlan_name = <<>>
    /\ details = NoDetails

(***************************************************************************)
(* Inputs that are enumerated.                                             *)
(***************************************************************************)
\* MAC addresses of a filter list (two octets stand for six).
FilterMacs == {<<"a", "b">>, <<"A", "B">>, <<"c", "d">>}

\* Keys and names of an arbitrary mapping given to label_mac_addresses.
KnownKeys == {<<"A", "B">>, <<"a", "b">>, <<"C", "D">>}
KnownNames == {<<"L">>, <<"T">>}

\* The mac field of a roster record: missing, empty, lowercase, mixed case.
RosterMacs == {JNull, JStr(<<>>), JStr(<<"a", "b">>), JStr(<<"c", "D">>)}

\* The name, hostname, usergroup_name and oui fields of a roster record.
FieldCombos ==
    { <<JNull, JNull, JNull, JNull>>,
      <<JNull, JStr(<<"h", "1">>), JNull, JStr(<<"V">>)>>,
      <<JStr(<<" ">>), JNum, JStr(<<>>), JStr(<<" ", "o", "\t">>)>>,
      <<JStr(<<" ", "n">>), JStr(<<"h", "1">>), JStr(<<"g">>), JStr(<<"V">>)>>,
      <<JNum, JStr(<<"\t">>), JStr(<<"g", " ">>), JNull>>,
      <<JStr(<<>>), JStr(<<" ">>), JNum, JStr(<<"\t", " ">>)>> }

DeviceRecords ==
    { [mac |-> m, name |-> f[1], hostname |-> f[2],
       usergroup_name |-> f[3], oui |-> f[4]] :
      m \in RosterMacs, f \in FieldCombos }

\* Entries and search terms given to filter_entries.
EntryVals ==
    { <<<<"A", "B">>, <<"P", "r">>>>,
      <<<<"1", "2">>, <<"K", " ", "a">>>>,
      <<<<"C", "D">>, Unknown>>,
      <<<<"p", "R">>, <<>>>> }
Terms == {<<>>, <<"p", "r">>, <<"a">>, <<"B">>, <<"2">>, <<" ">>, <<"z">>}

(***************************************************************************)
(* The helpers as operations on given inputs.                              *)
(***************************************************************************)
\* label_mac_addresses on an arbitrary filter list and mapping.
InitLabel ==
    /\ AppUnused
    /\ DetailsUnused
    /\ stage = "ready"
    /\ macs \in BSeq(FilterMacs, MaxMacs)
    /\ known_devices \in Dicts(KnownKeys, KnownNames)
    /\ labelled = <<>>
    /\ devices = <<>>
    /\ entries = <<>>
    /\ term = <<>>
    /\ filtered = <<>>

\* labelled = label_mac_addresses(macs, known_devices)
Label ==
    /\ stage = "ready"
    /\ labelled' = label_mac_addresses(macs, known_devices)
    /\ stage' = "labelled"
    /\ UNCHANGED <<macs, known_devices, devices, entries, term, filtered,
                   detailsVars, appVars>>

NextLabel == Label

SpecLabel == InitLabel /\ [][NextLabel]_vars

\* The composed flow: a roster is fetched, the mapping is built from it and
\* a filter list is labelled against the mapping.
InitRoster ==
    /\ AppUnused
    /\ DetailsUnused
    /\ stage = "roster"
    /\ devices \in BSeq(DeviceRecords, MaxRoster)
    /\ macs \in BSeq(FilterMacs, MaxFlowMacs)
    /\ known_devices = EmptyDict
    /\ labelled = <<>>
    /\ entries = <<>>
    /\ term = <<>>
    /\ filtered = <<>>

\* known_devices = fetch_known_devices(site) on the response `devices`
FetchKnownDevices ==
    /\ stage = "roster"
    /\ known_devices' = known_devices_of(devices)
    /\ stage' = "ready"
    /\ UNCHANGED <<macs, labelled, devices, entries, term, filtered,
                   detailsVars, appVars>>

NextRoster == FetchKnownDevices \/ Label

SpecRoster == InitRoster /\ [][NextRoster]_vars

\* filter_entries on an arbitrary entry list and term.
InitFilter ==
    /\ AppUnused
    /\ DetailsUnused
    /\ stage = "entries"
    /\ entries \in BSeq(EntryVals, MaxMacs)
    /\ term \in Terms
    /\ filtered = <<>>
    /\ macs = <<>>
    /\ known_devices = EmptyDict
    /\ labelled = <<>>
    /\ devices = <<>>

\* filtered = filter_entries(entries, term)
Filter ==
    /\ stage = "entries"
    /\ filtered' = filter_entries(entries, term)
    /\ stage' = "filtered"
    /\ UNCHANGED <<macs, known_devices, labelled, devices, entries, term,
                   detailsVars, appVars>>

NextFilter == Filter

SpecFilter == InitFilter /\ [][NextFilter]_vars

\* Profiles of a wlanconf response: the name is a string or missing, the
\* filter list a list or missing.
WlanItems ==
    { [name |-> n, mac_filter_list |-> l] :
      n \in {JStr(<<"a">>), JStr(<<"B">>), JStr(<<"b">>), JNull},
      l \in {JNull, JList(<< <<"a", "b">> >>)} }

\* WLAN names asked for.
WlanNames == {<<"a">>, <<"A">>, <<"b">>, <<"B">>, <<>>}

\* The roster the controller answers with.
DetailsRoster ==
    << [mac |-> JStr(<<"a", "b">>), name |-> JStr(<<"L">>), hostname |-> JNull,
        usergroup_name |-> JNull, oui |-> JNull] >>

\* fetch_mac_filter_details on arbitrary responses and an arbitrary name.
InitDetails ==
    /\ AppUnused
    /\ stage = "call"
    /\ wlan_resp \in [ok : BOOLEAN, data : BSeq(WlanItems, MaxWlans)]
    /\ (~wlan_resp.ok => wlan_resp.data = <<>>)
    /\ known_resp \in {NoResp, [ok |-> TRUE, data |-> DetailsRoster]}
    /\ wlan_name \in WlanNames
    /\ details = NoDetails
    /\ macs = <<>>
    /\ known_devices = EmptyDict
    /\ labelled = <<>>
    /\ devices = <<>>
    /\ entries = <<>>
    /\ term = <<>>
    /\ filtered = <<>>

\* details = client.fetch_mac_filter_details(site, wlan_name)
FetchMacFilterDetails ==
    /\ stage = "call"
    /\ details' = fetch_mac_filter_details(wlan_resp, known_resp, wlan_name)
    /\ stage' = "details"
    /\ UNCHANGED <<macs, known_devices, labelled, devices, entries, term,
                   filtered, wlan_resp, known_resp, wlan_name, appVars>>

NextDetails == FetchMacFilterDetails

SpecDetails == InitDetails /\ [][NextDetails]_vars

(***************************************************************************)
(* The controller the application talks to.                                *)
(***************************************************************************)
\* GET api/self/sites: two sites, the second without a description.
ControllerSites ==
    << [name |-> JStr(<<"d">>), desc |-> JStr(<<"H", "q">>)],
       [name |-> JStr(<<"b", "1">>), desc |-> JNull] >>

\* The site codes the controller knows.
SiteCodes == {GetStr(ControllerSites[i].name) : i \in 1..Len(ControllerSites)}

\* GET api/s/<site>/rest/wlanconf
ControllerWlanconf(site) ==
    IF site = <<"d">>
    THEN << [name |-> JStr(<<"W">>),
             mac_filter_list |-> JList(<< <<"a", "b">>, <<"c", "d">> >>)],
            [name |-> JStr(<<"g">>), mac_filter_list |-> JNull] >>
    ELSE IF site = <<"b", "1">>
    THEN << [name |-> JStr(<<"g">>),
             mac_filter_list |-> JList(<< <<"A", "B">> >>)] >>
    ELSE <<>>

\* GET api/s/<site>/stat/alluser
ControllerAlluser(site) ==
    IF site = <<"d">>
    THEN << [mac |-> JStr(<<"a", "b">>), name |-> JStr(<<" ", "L">>),
             hostname |-> JStr(<<"h", "1">>), usergroup_name |-> JNull,
             oui |-> JNull],
            [mac |-> JStr(<<"c", "d">>), name |-> JStr(<<" ">>),
             hostname |-> JNull, usergroup_name |-> JNum, oui |-> JNull] >>
    ELSE IF site = <<"b", "1">>
    THEN << [mac |-> JStr(<<"a", "b">>), name |-> JNull,
             hostname |-> JStr(<<"h", "2">>), usergroup_name |-> JNull,
             oui |-> JStr(<<"V">>)] >>
    ELSE <<>>

\* The responses a GET for a site's collection can receive.  Without a
\* logged-in session the controller answers 401; the request can fail on
\* the way; a site code the controller does not know is answered with an
\* error status or with an empty collection.
Responses(site, authed, data) ==
    {NoResp} \cup
    IF ~authed THEN {}
    ELSE IF site \in SiteCodes THEN {[ok |-> TRUE, data |-> data]}
    ELSE {[ok |-> TRUE, data |-> <<>>]}

\* One record of `fetches` per request that went out.
Requests(client, kinds, site, authed) ==
    {[client |-> client, kind |-> kinds[i], site |-> site, authed |-> authed] :
        i \in 1..Len(kinds)}

(***************************************************************************)
(* cli.py: run_cli.                                                        *)
(***************************************************************************)
\* Values of --site (empty: the flag is missing), --wlan and --out/--format.
SiteHints == {<<"d">>, <<"D">>, <<"h", "q">>, <<"B", "1">>, <<"z">>, <<>>}
CliWlanNames == {<<"W">>, <<"w">>, <<"g">>}
OutChoices == {"none", "txt", "csv", "xlsx"}

\* run_cli is about to parse argv.
InitCli ==
    /\ mode = "cli"
    /\ cli_pc = "start"
    /\ cli_site \in SiteHints
    /\ wlan_name \in CliWlanNames
    /\ cli_out \in OutChoices
    /\ cli_exit = "none"
    /\ cli_failed = "none"
    /\ cli_stdout = NoOutput
    /\ GuiUnused
    /\ session = <<>>
    /\ fetches = {}
    /\ wlan_resp = NoResp
    /\ known_resp = NoResp
    /\ details = NoDetails
    /\ stage = "app"
    /\ macs = <<>>
    /\ known_devices = EmptyDict
    /\ labelled = <<>>
    /\ devices = <<>>
    /\ entries = <<>>
    /\ term = <<>>
    /\ filtered = <<>>

\* parse_args, ensure_cli_args (SystemExit when a required flag is
\* missing), prompt_password, client = UniFiClient(...)
CliStart ==
    /\ mode = "cli" /\ cli_pc = "start"
    /\ IF cli_site = <<>>
       THEN /\ cli_pc' = "done"
            /\ cli_exit' = "SystemExit"
            /\ cli_failed' = "usage"
            /\ UNCHANGED session
       ELSE /\ cli_pc' = "login"
            /\ session' = Append(session, FALSE)
            /\ UNCHANGED <<cli_exit, cli_failed>>
    /\ UNCHANGED <<helperVars, detailsVars, mode, fetches, cli_site, cli_out,
                   cli_stdout, guiVars>>

\* try: client.login(...) except Exception: print, return 1
CliLogin ==
    /\ mode = "cli" /\ cli_pc = "login"
    /\ \E outcome \in HttpOutcomes :
        IF login_raises(outcome)
        THEN /\ cli_pc' = "done"
             /\ cli_exit' = "return1"
             /\ cli_failed' = "login"
             /\ cli_stdout' = [kind |-> "error", text |-> <<>>, rows |-> <<>>]
             /\ UNCHANGED session
        ELSE /\ cli_pc' = "details"
             /\ session' = [session EXCEPT ![1] = (outcome = "ok")]
             /\ UNCHANGED <<cli_exit, cli_failed, cli_stdout>>
    /\ UNCHANGED <<helperVars, detailsVars, mode, fetches, cli_site, cli_out,
                   guiVars>>

\* try: wlan, known_devices = client.fetch_mac_filter_details(args.site,
\* args.wlan) except Exception: print, return 1
CliFetchDetails ==
    /\ mode = "cli" /\ cli_pc = "details"
    /\ \E wr \in Responses(cli_site, session[1], ControllerWlanconf(cli_site)),
          kr \in Responses(cli_site, session[1], ControllerAlluser(cli_site)) :
        LET d == fetch_mac_filter_details(wr, kr, wlan_name)
        IN  /\ details' = d
            /\ wlan_resp' = wr
            /\ known_resp' = IF Len(d.issued) = 2 THEN kr ELSE NoResp
            /\ fetches' = fetches \cup
                              Requests(1, d.issued, cli_site, session[1])
            /\ IF d.status = "ok"
               THEN /\ cli_pc' = "report"
                    /\ UNCHANGED <<cli_exit, cli_failed, cli_stdout>>
               ELSE /\ cli_pc' = "done"
                    /\ cli_exit' = "return1"
                    /\ cli_failed' = IF d.status = "ValueError"
                                     THEN "notfound" ELSE "fetch"
                    /\ cli_stdout' = [kind |-> "error", text |-> d.message,
                                      rows |-> <<>>]
    /\ UNCHANGED <<helperVars, wlan_name, mode, session, cli_site, cli_out,
                   guiVars>>

\* labelled = label_mac_addresses(...); export_results (an exception of
\* which is not caught in run_cli) or print_table; return 0
CliReport ==
    /\ mode = "cli" /\ cli_pc = "report"
    /\ LET rows == label_mac_addresses(details.wlan.mac_filter_list,
                                       details.known)
       IN  /\ labelled' = rows
           /\ cli_pc' = "done"
           /\ IF cli_out = "none"
              THEN /\ cli_stdout' =
                         IF rows = <<>>
                         THEN [kind |-> "empty", text |-> <<>>, rows |-> <<>>]
                         ELSE [kind |-> "table", text |-> <<>>, rows |-> rows]
                   /\ cli_exit' = "return0"
                   /\ UNCHANGED cli_failed
              ELSE \E written \in BOOLEAN :
                     IF written
                     THEN /\ cli_stdout' = [kind |-> "exported",
                                            text |-> <<>>, rows |-> rows]
                          /\ cli_exit' = "return0"
                          /\ UNCHANGED cli_failed
                     ELSE /\ cli_exit' = "raised"
                          /\ cli_failed' = "export"
                          /\ UNCHANGED cli_stdout
    /\ UNCHANGED <<stage, macs, known_devices, devices, entries, term, filtered,
                   detailsVars, mode, clientVars, cli_site, cli_out, guiVars>>

NextCli == CliStart \/ CliLogin \/ CliFetchDetails \/ CliReport

(***************************************************************************)
(* gui.py: UnifiGui.                                                       *)
(***************************************************************************)
\* Search terms the user types into the filter box.
GuiTerms == {<<>>, <<" ", "l">>}

\* ttk.Combobox.current(): the index last set when the text shown still
\* stands there, else the first index holding the text, else none.
Current(cb) ==
    IF cb.index \in 1..Len(cb.values) /\ cb.values[cb.index] = cb.text
    THEN cb.index
    ELSE IF \E i \in 1..Len(cb.values) : cb.values[i] = cb.text
    THEN CHOOSE i \in 1..Len(cb.values) :
             /\ cb.values[i] = cb.text
             /\ \A j \in 1..(i - 1) : cb.values[j] # cb.text
    ELSE 0

\* ttk.Combobox.current(i), and the user picking entry i of the list.
SetCurrent(cb, i) == [cb EXCEPT !.index = i, !.text = cb.values[i]]

\* combo["values"] = vals
SetValues(cb, vals) == [cb EXCEPT !.values = vals]

\* d.get(key, default)
DictGet(d, key, default) == IF key \in DOMAIN d THEN d[key] ELSE default

\* A worker thread: _connect_and_fetch_sites or _load_site_data(site).
Worker(kind, pc, client, site, wlans) ==
    [kind |-> kind, pc |-> pc, client |-> client, site |-> site,
     wlans |-> wlans]

\* A callback handed to after(0, ...): _handle_error, or the update_ui
\* closure of a worker with the values it captured.
Callback(kind, client, sites, site, wlans, known) ==
    [kind |-> kind, client |-> client, sites |-> sites, site |-> site,
     wlans |-> wlans, known |-> known]

ErrorCallback(kind) == Callback(kind, 0, <<>>, NoSite, <<>>, EmptyDict)

\* threading.Thread(...).start() for each thread of a list
StartAll(ws, started) ==
    ws (+) [x \in {started[i] : i \in 1..Len(started)} |-> 1]

\* Thread w leaves the bag (it returned), or goes on as w2.
Ended(ws, w) == ws (-) SetToBag({w})
Becomes(ws, w, w2) == (ws (-) SetToBag({w})) (+) SetToBag({w2})

\* _refresh_table: the tree shows the entries that pass the filter box.
refresh_table(g) ==
    [g EXCEPT !.tree = filter_entries(g.all_entries, Strip(g.search))]

\* _populate_table(entries)
populate_table(g, es) == refresh_table([g EXCEPT !.all_entries = es])

\* _handle_error(title, message): the message becomes the status line and
\* is shown in a message box.
handle_error(g, kind) == [g EXCEPT !.status = Status(kind, <<>>)]

\* on_wlan_selected()
on_wlan_selected(g) ==
    LET site_idx == Current(g.site_combo)
        wlan_idx == Current(g.wlan_combo)
    IN  IF site_idx = 0 \/ wlan_idx = 0 THEN g
        ELSE LET site == g.sites[site_idx]
                 wlans == DictGet(g.wlans, site.code, <<>>)
             IN  IF wlan_idx > Len(wlans) THEN g
                 ELSE LET wlan == wlans[wlan_idx]
                          known == DictGet(g.known, site.code, EmptyDict)
                          es == label_mac_addresses(wlan.mac_filter_list, known)
                      IN  [populate_table(g, es) EXCEPT
                              !.status = Status("loaded", wlan.name)]

\* on_site_selected(): the new GUI state and the threads it starts.
on_site_selected(g) ==
    LET idx == Current(g.site_combo)
    IN  IF idx = 0 THEN [g |-> g, started |-> <<>>]
        ELSE LET site == g.sites[idx]
             IN  [g |-> [g EXCEPT !.status = Status("loading", site.description)],
                  started |-> << Worker("load", "start", 0, site, <<>>) >>]

\* update_ui of _connect_and_fetch_sites, run by the event loop.
connect_update_ui(g, client, sites) ==
    LET g1 == [g EXCEPT !.client = client, !.sites = sites,
                        !.site_combo = SetValues(g.site_combo,
                            [i \in 1..Len(sites) |-> sites[i].description])]
        sel == IF sites # <<>>
               THEN on_site_selected(
                        [g1 EXCEPT !.site_combo = SetCurrent(g1.site_combo, 1)])
               ELSE [g |-> g1, started |-> <<>>]
    IN  [g |-> [sel.g EXCEPT !.status = Status("connected", <<>>)],
         started |-> sel.started]

\* update_ui of _load_site_data, run by the event loop.
load_update_ui(g, site, wlans, known) ==
    LET g1 == [g EXCEPT !.wlans = DictSet(g.wlans, site.code, wlans),
                        !.known = DictSet(g.known, site.code, known),
                        !.wlan_combo = SetValues(g.wlan_combo,
                            [i \in 1..Len(wlans) |-> wlans[i].name])]
    IN  IF wlans # <<>>
        THEN on_wlan_selected(
                 [g1 EXCEPT !.wlan_combo = SetCurrent(g1.wlan_combo, 1)])
        ELSE [populate_table(g1, <<>>) EXCEPT !.status = Status("no_wlans", <<>>)]

\* run_gui: the window is up and the event loop runs.
InitGui ==
    /\ mode = "gui"
    /\ GuiUnused
    /\ session = <<>>
    /\ fetches = {}
    /\ cli_pc = "idle"
    /\ cli_site = <<>>
    /\ cli_out = "none"
    /\ cli_exit = "none"
    /\ cli_failed = "none"
    /\ cli_stdout = NoOutput
    /\ DetailsUnused
    /\ stage = "app"
    /\ macs = <<>>
    /\ known_devices = EmptyDict
    /\ labelled = <<>>
    /\ devices = <<>>
    /\ entries = <<>>
    /\ term = <<>>
    /\ filtered = <<>>

guiFrame == <<helperVars, detailsVars, mode, cliVars>>

\* The user presses Connect: on_connect warns when a field is empty, and
\* starts _connect_and_fetch_sites in a thread otherwise.
UserConnect ==
    /\ mode = "gui"
    /\ presses < MaxPresses
    /\ presses' = presses + 1
    /\ \E filled \in BOOLEAN :
        IF filled
        THEN /\ gui' = [gui EXCEPT !.status = Status("connecting", <<>>)]
             /\ workers' = StartAll(workers,
                              << Worker("connect", "login", 0, NoSite, <<>>) >>)
        ELSE \* messagebox.showwarning(...); return
             UNCHANGED <<gui, workers>>
    /\ UNCHANGED <<guiFrame, clientVars, queue, touched>>

\* The user picks entry i of the site list: on_site_selected starts
\* _load_site_data in a thread.
UserSelectSite ==
    /\ mode = "gui"
    /\ presses < MaxPresses
    /\ \E i \in 1..Len(gui.site_combo.values) :
        LET sel == on_site_selected(
                       [gui EXCEPT !.site_combo = SetCurrent(gui.site_combo, i)])
        IN  /\ gui' = sel.g
            /\ workers' = StartAll(workers, sel.started)
    /\ presses' = presses + 1
    /\ UNCHANGED <<guiFrame, clientVars, queue, touched>>

\* The user picks entry j of the WLAN list: on_wlan_selected.
UserSelectWlan ==
    /\ mode = "gui"
    /\ \E j \in 1..Len(gui.wlan_combo.values) :
        gui' = on_wlan_selected(
                   [gui EXCEPT !.wlan_combo = SetCurrent(gui.wlan_combo, j)])
    /\ UNCHANGED <<guiFrame, clientVars, workers, queue, presses, touched>>

\* The user edits the filter box: the trace on search_var refreshes the
\* table.
UserSearch ==
    /\ mode = "gui"
    /\ \E t \in GuiTerms :
        /\ t # gui.search
        /\ gui' = refresh_table([gui EXCEPT !.search = t])
    /\ UNCHANGED <<guiFrame, clientVars, workers, queue, presses, touched>>

\* _connect_and_fetch_sites: client = UniFiClient(url); client.login(...)
WorkerLogin(w) ==
    /\ w.kind = "connect" /\ w.pc = "login"
    /\ LET c == Len(session) + 1
       IN  \E outcome \in HttpOutcomes :
             IF login_raises(outcome)
             THEN /\ session' = Append(session, FALSE)
                  /\ workers' = Ended(workers, w)
                  /\ queue' = Append(queue, ErrorCallback("connect_failed"))
             ELSE /\ session' = Append(session, outcome = "ok")
                  /\ workers' = Becomes(workers, w,
                                    [w EXCEPT !.pc = "sites", !.client = c])
                  /\ UNCHANGED queue
    /\ UNCHANGED <<guiFrame, fetches, gui, presses, touched>>

\* _connect_and_fetch_sites: sites = client.fetch_sites(), then
\* after(0, update_ui), or after(0, _handle_error) when it raised
WorkerFetchSites(w) ==
    /\ w.kind = "connect" /\ w.pc = "sites"
    /\ LET c == w.client
       IN  /\ fetches' = fetches \cup
                             Requests(c, <<"sites">>, <<>>, session[c])
           /\ \E ok \in (IF session[c] THEN BOOLEAN ELSE {FALSE}) :
                queue' = Append(queue,
                    IF ok
                    THEN Callback("connected", c, fetch_sites_of(ControllerSites),
                                  NoSite, <<>>, EmptyDict)
                    ELSE ErrorCallback("connect_failed"))
    /\ workers' = Ended(workers, w)
    /\ UNCHANGED <<guiFrame, session, gui, presses, touched>>

\* An access of a thread other than the event loop's to a field of GuiState
\* or to a widget.
Access(thread, field, op) == [thread |-> thread, field |-> field, op |-> op]

\* _load_site_data: client = self.state.client; return when it is None.
\* target=self._load_site_data makes this the first statement of the thread.
WorkerLoadStart(w) ==
    /\ w.kind = "load" /\ w.pc = "start"
    /\ touched' = touched \cup {Access("_load_site_data", "client", "read")}
    /\ workers' = IF gui.client = 0 THEN Ended(workers, w)
                  ELSE Becomes(workers, w,
                           [w EXCEPT !.pc = "wlans", !.client = gui.client])
    /\ UNCHANGED <<guiFrame, clientVars, gui, queue, presses>>

\* _load_site_data: client.fetch_wlans(site.code) calls session.get, and
\* the request for rest/wlanconf goes out on the client's session
WorkerRequestWlans(w) ==
    /\ w.kind = "load" /\ w.pc = "wlans"
    /\ fetches' = fetches \cup
                      Requests(w.client, <<"wlanconf">>, w.site.code,
                               session[w.client])
    /\ workers' = Becomes(workers, w, [w EXCEPT !.pc = "wlans_get"])
    /\ UNCHANGED <<guiFrame, session, gui, queue, presses, touched>>

\* _load_site_data: session.get returns or raises, and
\* wlans = client.fetch_wlans(site.code) ends
WorkerFetchWlans(w) ==
    /\ w.kind = "load" /\ w.pc = "wlans_get"
    /\ LET c == w.client
           code == w.site.code
       IN  \E r \in Responses(code, session[c], ControllerWlanconf(code)) :
                IF r.ok
                THEN /\ workers' = Becomes(workers, w,
                                       [w EXCEPT !.pc = "known",
                                                 !.wlans = fetch_wlans_of(r.data)])
                     /\ UNCHANGED queue
                ELSE /\ workers' = Ended(workers, w)
                     /\ queue' = Append(queue, ErrorCallback("load_failed"))
    /\ UNCHANGED <<guiFrame, clientVars, gui, presses, touched>>

\* _load_site_data: client.fetch_known_devices(site.code) calls
\* session.get, and the request for stat/alluser goes out
WorkerRequestKnown(w) ==
    /\ w.kind = "load" /\ w.pc = "known"
    /\ fetches' = fetches \cup
                      Requests(w.client, <<"alluser">>, w.site.code,
                               session[w.client])
    /\ workers' = Becomes(workers, w, [w EXCEPT !.pc = "known_get"])
    /\ UNCHANGED <<guiFrame, session, gui, queue, presses, touched>>

\* _load_site_data: session.get returns or raises,
\* known = client.fetch_known_devices(site.code) ends, then
\* after(0, update_ui), or after(0, _handle_error) when it raised
WorkerFetchKnown(w) ==
    /\ w.kind = "load" /\ w.pc = "known_get"
    /\ LET c == w.client
           code == w.site.code
       IN  \E r \in Responses(code, session[c], ControllerAlluser(code)) :
                queue' = Append(queue,
                    IF r.ok
                    THEN Callback("loaded", c, <<>>, w.site, w.wlans,
                                  known_devices_of(r.data))
                    ELSE ErrorCallback("load_failed"))
    /\ workers' = Ended(workers, w)
    /\ UNCHANGED <<guiFrame, clientVars, gui, presses, touched>>

\* The event loop runs the oldest after(0, ...) callback.  The lambda of an
\* error reads `exc`, which the worker unbinds when it leaves its except
\* block: run before that, it calls _handle_error; run after it, it raises
\* NameError, which Tk reports, and the window stays as it is.
RunCallback ==
    /\ mode = "gui"
    /\ queue # <<>>
    /\ LET cb == Head(queue)
       IN  IF cb.kind = "connected"
           THEN LET r == connect_update_ui(gui, cb.client, cb.sites)
                IN  /\ gui' = r.g
                    /\ workers' = StartAll(workers, r.started)
           ELSE IF cb.kind = "loaded"
           THEN /\ gui' = load_update_ui(gui, cb.site, cb.wlans, cb.known)
                /\ UNCHANGED workers
           ELSE /\ \E bound \in BOOLEAN :
                     gui' = IF bound THEN handle_error(gui, cb.kind) ELSE gui
                /\ UNCHANGED workers
    /\ queue' = Tail(queue)
    /\ UNCHANGED <<guiFrame, clientVars, presses, touched>>

\* A step of one of the worker threads.
WorkerStep ==
    /\ mode = "gui"
    /\ \E w \in BagToSet(workers) :
        \/ WorkerLogin(w)
        \/ WorkerFetchSites(w)
        \/ WorkerLoadStart(w)
        \/ WorkerRequestWlans(w)
        \/ WorkerFetchWlans(w)
        \/ WorkerRequestKnown(w)
        \/ WorkerFetchKnown(w)

NextGui ==
    \/ UserConnect
    \/ UserSelectSite
    \/ UserSelectWlan
    \/ UserSearch
    \/ WorkerStep
    \/ RunCallback

(***************************************************************************)
(* app.py: run starts run_cli when there are CLI arguments and run_gui     *)
(* otherwise.                                                              *)
(***************************************************************************)
Init == InitCli \/ InitGui

Next == NextCli \/ NextGui

Spec == Init /\ [][Next]_vars

(***************************************************************************)
(* Claims about run_cli and about sessions.                                *)
(***************************************************************************)
\* C4: run_cli ends with exit code 0 when no step failed and with exit
\* code 1 when login, a fetch or the export failed; it ends in no other
\* way after such a failure.
C4_ExitCodes ==
    (mode = "cli" /\ cli_pc = "done" /\ cli_failed # "usage") =>
        /\ cli_failed = "none" => cli_exit = "return0"
        /\ cli_failed # "none" => cli_exit = "return1"

\* C5: every resource GET went out on a client whose login had succeeded,
\* and no GET went out on a client whose login failed.
C5_LoginBeforeFetch ==
    \A f \in fetches :
        /\ f.client \in 1..Len(session)
        /\ f.authed
        /\ session[f.client]

\* The first connection's client has fetched sites, profiles and known
\* clients in the GUI while a second connection's login failed and its
\* client sent nothing.
C5_Witness ==
    /\ mode = "gui"
    /\ Len(session) = 2
    /\ session[1] /\ ~session[2]
    /\ {f.kind : f \in {x \in fetches : x.client = 1}}
           = {"sites", "wlanconf", "alluser"}
    /\ \A f \in fetches : f.client = 1

\* The sites of the controller that the hint names: it equals the
\* description or the code, letter case aside.
SitesMatching(hint) ==
    LET sites == fetch_sites_of(ControllerSites)
    IN  {sites[i].code : i \in
            {j \in 1..Len(sites) :
                Lower(hint) \in {Lower(sites[j].description),
                                 Lower(sites[j].code)}}}

\* C6: the profile and known-client requests of run_cli name the code of a
\* site that --site matches by description or code, letter case aside; when
\* no site matches, no such request goes out.
C6_SiteResolved ==
    mode = "cli" =>
        \A f \in fetches :
            f.kind \in {"wlanconf", "alluser"} => f.site \in SitesMatching(cli_site)

(***************************************************************************)
(* Claims about fetch_mac_filter_details.                                  *)
(***************************************************************************)
\* The names of the profiles of the response.
FetchedNames == {GetStr(wlan_resp.data[i].name) : i \in 1..Len(wlan_resp.data)}

\* s lists every element of S once, in strictly increasing order.
IsSortedListing(s, S) ==
    /\ {s[i] : i \in 1..Len(s)} = S
    /\ \A i \in 1..(Len(s) - 1) : StrLess(s[i], s[i + 1])

\* C3: when the profiles were fetched and none is named exactly wlan_name,
\* the call raises the not-found error, whose message lists every fetched
\* name in sorted order; no profile and no mapping is returned, and the
\* known clients are not asked for.
C3_NotFound ==
    (stage = "details" /\ wlan_resp.ok /\ wlan_name \notin FetchedNames) =>
        /\ details.status = "ValueError"
        /\ \E s \in BSeq(FetchedNames, Cardinality(FetchedNames)) :
              /\ IsSortedListing(s, FetchedNames)
              /\ details.message = NotFoundMessage(wlan_name, s)
        /\ \A n \in FetchedNames : Contains(details.message, n)
        /\ details.wlan = NoWlan
        /\ details.known = EmptyDict
        /\ details.issued = <<"wlanconf">>

\* A name that differs from a fetched one only in letter case was refused,
\* with two fetched names listed in code-point order ("B" before "a"),
\* which is not the order fetch_wlans returns them in.
C3_Witness ==
    /\ stage = "details"
    /\ wlan_name = <<"A">>
    /\ FetchedNames = {<<"a">>, <<"B">>}
    /\ details.status = "ValueError"
    /\ details.message
           = NotFoundMessage(<<"A">>, << <<"B">>, <<"a">> >>)

(***************************************************************************)
(* Claims about label_mac_addresses.                                       *)
(***************************************************************************)
\* C1: label_mac_addresses(M, K) has exactly len(M) entries and its i-th
\* entry's mac is the uppercase form of M[i]: nothing is dropped,
\* deduplicated or reordered.
C1_OrderPreserved ==
    stage = "labelled" =>
        /\ Len(labelled) = Len(macs)
        /\ \A i \in 1..Len(macs) : labelled[i][1] = Upper(macs[i])

\* A list with a repeated address (also repeated up to case) was labelled.
C1_Witness ==
    /\ stage = "labelled"
    /\ Len(macs) = MaxMacs
    /\ macs[1] = macs[2]
    /\ Upper(macs[3]) = Upper(macs[1]) /\ macs[3] # macs[1]
    /\ Len(labelled) = MaxMacs

\* C2: the label of address m is K[upper(m)] when upper(m) is a key of K
\* and "Unknown" otherwise; a lowercase address joins an uppercase key.
C2_LabelLookup ==
    stage = "labelled" =>
        \A i \in 1..Len(labelled) :
            labelled[i][2] = IF Upper(macs[i]) \in DOMAIN known_devices
                             THEN known_devices[Upper(macs[i])]
                             ELSE Unknown

\* A lowercase address was joined with an uppercase key while the mapping
\* also holds the lowercase spelling as a key, and another address of the
\* same list fell back to "Unknown".
C2_Witness ==
    /\ stage = "labelled"
    /\ \E i, j \in 1..Len(macs) :
        /\ macs[i] = <<"a", "b">>
        /\ {<<"A", "B">>, <<"a", "b">>} \subseteq DOMAIN known_devices
        /\ known_devices[<<"A", "B">>] # known_devices[<<"a", "b">>]
        /\ labelled[i] = <<<<"A", "B">>, known_devices[<<"A", "B">>]>>
        /\ Upper(macs[j]) \notin DOMAIN known_devices
        /\ labelled[j][2] = Unknown

(***************************************************************************)
(* Claims about fetch_known_devices and the composed flow.                 *)
(***************************************************************************)
\* The record has a non-empty MAC.
HasMac(d) == IsStr(d.mac) /\ d.mac.v # <<>>

\* Some candidate field of the record is a string that is non-empty after
\* trimming.
HasName(d) == \E k \in 1..Len(NameKeys) : Qualifies(d[NameKeys[k]])

\* The trimmed value of the first such field.
FirstName(d) ==
    LET k == CHOOSE j \in 1..Len(NameKeys) :
                 /\ Qualifies(d[NameKeys[j]])
                 /\ \A h \in 1..(j - 1) : ~Qualifies(d[NameKeys[h]])
    IN  Strip(d[NameKeys[k]].v)

\* C7: the mapping holds exactly the uppercase MACs of the records with a
\* non-empty MAC and a qualifying field, each mapped to the trimmed value
\* of the first qualifying field among name, hostname, usergroup_name, oui
\* (of the last such record, when a MAC is repeated); records with no
\* qualifying field or no MAC add nothing.
C7_KnownDevices ==
    stage \in {"ready", "labelled"} =>
        LET adds == {i \in 1..Len(devices) :
                        HasMac(devices[i]) /\ HasName(devices[i])}
        IN  /\ DOMAIN known_devices = {Upper(devices[i].mac.v) : i \in adds}
            /\ \A i \in adds :
                  (\A j \in adds : j > i =>
                       Upper(devices[j].mac.v) # Upper(devices[i].mac.v))
                  => known_devices[Upper(devices[i].mac.v)]
                         = FirstName(devices[i])

\* A record with hostname and oui (and no name) was mapped to its hostname,
\* and a record with a MAC and no qualifying field added nothing.
C7_Witness ==
    /\ stage = "ready"
    /\ Len(devices) = 2
    /\ devices[1].mac = JStr(<<"a", "b">>)
    /\ devices[1].name = JNull
    /\ devices[1].hostname = JStr(<<"h", "1">>)
    /\ devices[1].oui = JStr(<<"V">>)
    /\ devices[2].mac = JStr(<<"c", "D">>)
    /\ devices[2].hostname = JStr(<<" ">>)
    /\ ~HasName(devices[2])
    /\ known_devices = [x \in {<<"A", "B">>} |-> <<"h", "1">>]

\* C8: every label produced by fetch_known_devices followed by
\* label_mac_addresses is non-empty, not whitespace-only, and is either
\* "Unknown" or the trimmed value of a roster field that is a string with
\* something other than whitespace in it.
C8_LabelNeverBlank ==
    stage = "labelled" =>
        \A e \in 1..Len(labelled) :
            LET label == labelled[e][2]
            IN  /\ label # <<>>
                /\ Strip(label) # <<>>
                /\ \/ label = Unknown
                   \/ \E i \in 1..Len(devices), k \in 1..Len(NameKeys) :
                        /\ Qualifies(devices[i][NameKeys[k]])
                        /\ label = Strip(devices[i][NameKeys[k]].v)

\* An address was labelled from a record whose higher-priority fields are
\* whitespace-only, a number and empty.
C8_Witness ==
    /\ stage = "labelled"
    /\ \E e \in 1..Len(labelled), i \in 1..Len(devices) :
        /\ HasMac(devices[i])
        /\ labelled[e][1] = Upper(devices[i].mac.v)
        /\ devices[i].name = JStr(<<" ">>)
        /\ devices[i].usergroup_name = JStr(<<>>)
        /\ labelled[e][2] = <<"o">>

(***************************************************************************)
(* Claims about filter_entries.                                            *)
(***************************************************************************)
\* An entry matches: the lowercased term is a substring of its lowercased
\* MAC or of its lowercased label.
Matches(e, t) ==
    \/ Contains(Lower(e[1]), Lower(t))
    \/ Contains(Lower(e[2]), Lower(t))

\* s is the subsequence of es selected by the strictly increasing index
\* list idx.
IsSelection(s, es, idx) ==
    /\ Len(idx) = Len(s)
    /\ \A k \in 1..Len(idx) : idx[k] \in 1..Len(es) /\ s[k] = es[idx[k]]
    /\ \A k \in 1..(Len(idx) - 1) : idx[k] < idx[k + 1]

\* C9: for a non-empty term, filter_entries(E, T) is the subsequence of E,
\* in E's order, of exactly the entries that match T in the MAC or in the
\* label.
C9_FilterSubstring ==
    (stage = "filtered" /\ term # <<>>) =>
        \E idx \in BSeq(1..Len(entries), Len(entries)) :
            /\ IsSelection(filtered, entries, idx)
            /\ {idx[k] : k \in 1..Len(idx)}
                   = {i \in 1..Len(entries) : Matches(entries[i], term)}

\* A term in another letter case kept an entry matching only by label and
\* one matching only by MAC, and dropped one matching neither.
C9_Witness ==
    /\ stage = "filtered"
    /\ term = <<"p", "r">>
    /\ entries = << <<<<"A", "B">>, <<"P", "r">>>>,
                    <<<<"1", "2">>, <<"K", " ", "a">>>>,
                    <<<<"p", "R">>, <<>>>> >>
    /\ filtered = << entries[1], entries[3] >>

\* C10: filter_entries(E, "") equals E in content and order.
C10_EmptyTermIdentity ==
    (stage = "filtered" /\ term = <<>>) => filtered = entries

\* The empty term was applied to a list of several entries.
C10_Witness ==
    /\ stage = "filtered"
    /\ term = <<>>
    /\ Len(entries) = MaxMacs
    /\ filtered = entries

(***************************************************************************)
(* Claims about the threads of the Tk front end.                           *)
(***************************************************************************)
\* C11: no worker thread reads or writes the GUI's state (the fields of
\* GuiState, the combo boxes, the table, the status line); only the event
\* loop's thread accesses it.
C11_WorkersKeepOff == touched = {}

\* Thread w is inside a session.get of its client.  (A connect thread is the
\* only holder of the client it made until its update_ui publishes it, after
\* the thread's last request; its requests are single steps.)
InRequest(w) == w.kind = "load" /\ w.pc \in {"wlans_get", "known_get"}

\* C12: at no time are two worker threads inside a request on the session
\* of the same UniFiClient instance.
C12_SessionNotShared ==
    \A w \in BagToSet(workers) :
        InRequest(w) =>
            /\ CopiesIn(w, workers) = 1
            /\ \A v \in BagToSet(workers) :
                   (v # w /\ InRequest(v)) => v.client # w.client

\* This step starts a thread _load_site_data, which fetches a site's
\* profiles and known clients.
StartsLoad ==
    \E w \in BagToSet(workers') :
        /\ w.kind = "load" /\ w.pc = "start"
        /\ CopiesIn(w, workers') > CopiesIn(w, workers)

\* C13: there is no cache of controller data between selections: every
\* pick in the site list and every pick in the WLAN list starts a fresh
\* fetch of the site's profiles and known clients, from which the entries
\* shown are computed.
C13_FreshFetch == [][(UserSelectSite \/ UserSelectWlan) => StartsLoad]_vars

\* Every thread has ended and every after(0, ...) callback has run.
AllDelivered == mode = "gui" /\ workers = EmptyBag /\ queue = <<>>

\* C14: once every result has been delivered, and one has been for the site
\* now selected, the WLAN list holds exactly the profile names fetched for
\* that site, one of them is selected, and the table shows the labelled
\* filter list of that profile (as far as it passes the filter box); a late
\* result for a site selected before leaves no other site's data there.
C14_ShowsSelectedSite ==
    (AllDelivered /\ Current(gui.site_combo) # 0) =>
        LET site == gui.sites[Current(gui.site_combo)]
        IN  site.code \in DOMAIN gui.wlans =>
                LET wlans == gui.wlans[site.code]
                    known == gui.known[site.code]
                    j == Current(gui.wlan_combo)
                IN  /\ gui.wlan_combo.values
                           = [i \in 1..Len(wlans) |-> wlans[i].name]
                    /\ wlans # <<>> => j \in 1..Len(wlans)
                    /\ j \in 1..Len(wlans) =>
                           gui.tree = filter_entries(
                               label_mac_addresses(wlans[j].mac_filter_list,
                                                   known),
                               Strip(gui.search))

=============================================================================
